---- MODULE Spec2Model ----
(***************************************************************************)
(* Model of the batch download orchestration of simple-ytb-downloader:     *)
(* the Tk UI handlers (_start_download, _cancel_download, folder choice,   *)
(* FFmpeg check), the background worker (_download_worker with             *)
(* plan_downloads and download_single inlined as worker steps), the        *)
(* progress queue and its polling consumer (process_progress_queue).       *)
(*                                                                         *)
(* The external extractor (yt_dlp) is the environment: every call into it  *)
(* (metadata probe, download with its progress hooks) is a step whose      *)
(* outcome is chosen nondeterministically.                                 *)
(*                                                                         *)
(* Encodings: Python None / a missing dict key is "" for strings and 0 for *)
(* integers (pl_index and pl_count are >= 1 whenever the planner sets      *)
(* them).  The overall progress value, a float in the code, is kept as the *)
(* exact rational num/den with den = number of tasks of the run.           *)
(***************************************************************************)
EXTENDS Integers, Sequences, FiniteSets, TLC

(* ------------------------------ bounds --------------------------------- *)
MaxEntries == 2       \* entries with a URL in a playlist, so tasks of one run
MaxHooks == 1         \* progress callbacks per invocation of the downloader
MaxRuns == 2          \* start requests accepted in one behaviour
MaxQueue == 1         \* events the worker may be ahead of the consumer
MaxBytes == 2         \* largest downloaded_bytes a callback reports
MaxTotal == 4         \* tasks of a batch when post_progress is checked alone
MaxPlanUrls == 2      \* URLs given to plan_downloads when it is checked alone
MaxPlanEntries == 2   \* entries of a playlist when plan_downloads is checked alone

(* --------------------------- small helpers ----------------------------- *)
RECURSIVE SelectSeq2(_, _)
SelectSeq2(s, keep) ==
  IF s = <<>> THEN <<>>
  ELSE IF keep[Head(s)] THEN <<Head(s)>> \o SelectSeq2(Tail(s), keep)
       ELSE SelectSeq2(Tail(s), keep)

Last(s) == s[Len(s)]

(* --------------------------- titles and URLs --------------------------- *)
\* Titles the extractor may report.  "" stands for None / no title.
Titles == {"", "Clip", "Private video", "[Private video]", "[PRIVATE VIDEO] x"}

\* str(title or "").strip().lower() on the titles above (ui.py:365-366)
LowerStrip(t) ==
  CASE t = "Private video" -> "private video"
    [] t = "[Private video]" -> "[private video]"
    [] t = "[PRIVATE VIDEO] x" -> "[private video] x"
    [] t = "Clip" -> "clip"
    [] OTHER -> ""

\* title_str.lower().startswith("[private video]") or title_str.lower() == "private video"
TitleIsPrivate(t) ==
  \/ LowerStrip(t) \in {"[private video]", "[private video] x"}
  \/ LowerStrip(t) = "private video"

\* Words the user may have in the URL text box.
Words == {"https://y/watch?v=a", "https://y/playlist?list=b", "not a url"}

\* utils.looks_like_url: scheme in {http, https} and a host
looks_like_url(s) == s \in {"https://y/watch?v=a", "https://y/playlist?list=b"}

\* planner.looks_like_playlist_url: "list=" in the query or "/playlist" in the path
looks_like_playlist_url(u) == u = "https://y/playlist?list=b"

\* Contents of the URL box the model draws from: nothing, one word.
UrlBoxes == {<<>>} \cup {<<w>> : w \in Words}

\* DownloaderApp._collect_urls: the words that look like URLs, in order
collect_urls(words) ==
  SelectSeq2(words, [w \in Words |-> looks_like_url(w)])

(* ------------------------------ planner -------------------------------- *)
\* What extract_info(u, download=False) may answer during planning.
\* kind "raise": the probe raised; "video": a dict that is not a playlist;
\* "playlist": a dict with _type = "playlist" and the given entries.
\* An entry with url = "" has no URL.
Entry(u, t) == [url |-> u, title |-> t]
ProbeRaise == [kind |-> "raise", title |-> "", entries |-> <<>>]
ProbeVideo == [kind |-> "video", title |-> "Clip", entries |-> <<>>]
ProbePlaylist(t, es) == [kind |-> "playlist", title |-> t, entries |-> es]

Task(u) == [url |-> u, pl_title |-> "", pl_index |-> 0, pl_count |-> 0,
            entry_title |-> "", pl_batch_index |-> 0]

\* sanitize_filename on the playlist titles used here: "/" is an invalid
\* character and becomes a space
SanitizePlTitle(t) == CASE t = "A/B" -> "A B" [] OTHER -> t

\* PlaylistTasks that counts the entries without URL in pl_count
PlaylistTasks_CountAll(info, batch) ==
  LET entries == SelectSeq(info.entries, LAMBDA e : e.url # "")
      pl_title == SanitizePlTitle(IF info.title # "" THEN info.title ELSE "Playlist")
  IN [i \in 1..Len(entries) |->
        [url |-> entries[i].url, pl_title |-> pl_title, pl_index |-> i,
         pl_count |-> Len(info.entries), entry_title |-> entries[i].title,
         pl_batch_index |-> batch]]

\* planner.py:40-54, the tasks of one expanded playlist
PlaylistTasks(info, batch) ==
  LET entries == SelectSeq(info.entries, LAMBDA e : e.url # "")
      pl_title == SanitizePlTitle(IF info.title # "" THEN info.title ELSE "Playlist")
      pl_count == Len(entries)
  IN [i \in 1..pl_count |->
        [url |-> entries[i].url, pl_title |-> pl_title, pl_index |-> i,
         pl_count |-> pl_count, entry_title |-> entries[i].title,
         pl_batch_index |-> batch]]

\* PlanFrom that drops a URL whose probe raised
RECURSIVE PlanFrom_DropFailed(_, _, _, _, _)
PlanFrom_DropFailed(us, expand, probes, i, batch) ==
  IF i > Len(us) THEN <<>>
  ELSE IF ~expand THEN <<Task(us[i])>> \o PlanFrom_DropFailed(us, expand, probes, i + 1, batch)
  ELSE IF probes[i].kind = "playlist" /\ probes[i].entries # <<>>
       THEN PlaylistTasks(probes[i], batch + 1)
            \o PlanFrom_DropFailed(us, expand, probes, i + 1, batch + 1)
       ELSE IF probes[i].kind = "raise"
            THEN PlanFrom_DropFailed(us, expand, probes, i + 1, batch)
            ELSE <<Task(us[i])>> \o PlanFrom_DropFailed(us, expand, probes, i + 1, batch)

\* planner.plan_downloads; probes[i] is the extractor's answer for urls[i]
RECURSIVE PlanFrom(_, _, _, _, _)
PlanFrom(us, expand, probes, i, batch) ==
  IF i > Len(us) THEN <<>>
  ELSE IF ~expand THEN <<Task(us[i])>> \o PlanFrom(us, expand, probes, i + 1, batch)
  ELSE IF probes[i].kind = "playlist" /\ probes[i].entries # <<>>
       THEN PlaylistTasks(probes[i], batch + 1) \o PlanFrom(us, expand, probes, i + 1, batch + 1)
       ELSE <<Task(us[i])>> \o PlanFrom(us, expand, probes, i + 1, batch)

\* plan_downloads that expands whatever expand_playlist says
plan_downloads_ExpandAlways(us, expand, installed, probes) ==
  IF ~installed THEN [i \in 1..Len(us) |-> Task(us[i])]
  ELSE PlanFrom(us, TRUE, probes, 1, 0)

plan_downloads(us, expand, installed, probes) ==
  IF ~installed THEN [i \in 1..Len(us) |-> Task(us[i])]
  ELSE PlanFrom(us, expand, probes, 1, 0)

\* A playlist of one entry without URL followed by n entries with a URL: the
\* first has no title, the second an ordinary one, the third is marked private.
EntryTitle(i) == CASE i = 1 -> "" [] i = 2 -> "Clip" [] i = 3 -> "[Private video]" [] OTHER -> "Clip"
PlaylistOf(n) ==
  ProbePlaylist(IF n = 0 THEN "" ELSE "Mix",
                <<Entry("", "Clip")>> \o [i \in 1..n |-> Entry("https://y/e", EntryTitle(i))])

\* The extractor's answers the batch model draws from.
BatchProbes == {ProbeRaise, ProbeVideo} \cup {PlaylistOf(n) : n \in 0..MaxEntries}

(* ------------------------------- events -------------------------------- *)
\* One dict put on progress_q.  text is the fixed part of the event's text,
\* title the title it embeds.  task is the 1-based index of the task the
\* worker was processing when it posted the event (0: none).  pct is the
\* "percent" key (-1: the key is missing), num/den the "value" key.
Ev(type, which, text, title, task, pct, num, den) ==
  [type |-> type, which |-> which, text |-> text, title |-> title, task |-> task,
   pct |-> pct, num |-> num, den |-> den]

LabelEv(which, text, title, task, total) == Ev("label", which, text, title, task, -1, 0, total)
StatusEv(text, title, task) == Ev("status", "", text, title, task, -1, 0, 1)
DoneEv == Ev("done", "", "", "", 0, -1, 0, 1)

Max(a, b) == IF a >= b THEN a ELSE b

\* OverallNum that counts the item's percent down from the end of the item
OverallNum_Reversed(current_index, item_pct) == 100 * current_index - item_pct

\* ui.py:420, overall = (((current_index - 1) + item_pct / 100) / max(1, current_total)) * 100
\* as the numerator over max(1, current_total)
OverallNum(current_index, item_pct) == 100 * (current_index - 1) + item_pct

\* ui.py:413-423, post_progress for a progress event of item percent item_pct
ProgressEv(text, current_index, current_total, item_pct) ==
  Ev("progress", "", text, "", current_index, item_pct,
     OverallNum(current_index, item_pct), Max(1, current_total))

\* SkipProgressEv that leaves the overall value where the item started
SkipProgressEv_NotAdvanced(i, n) == Ev("progress", "", "", "", i, -1, 100 * (i - 1), Max(1, n))

\* ui.py:386-391, the progress event after a skipped item: (idx / max(1, total)) * 100
SkipProgressEv(i, n) == Ev("progress", "", "", "", i, -1, 100 * i, Max(1, n))

\* downloader_service.py:72-74, percent = downloaded / total * 100 if total else 0
\* (the totals drawn below divide downloaded * 100 exactly; total is
\* total_bytes or total_bytes_estimate, 0 when the callback has neither, and
\* an estimate may be smaller than what has been downloaded)
Totals == {0, 1}
Percent(downloaded, tot) == IF tot # 0 THEN (downloaded * 100) \div tot ELSE 0

(* ------------------------------- state --------------------------------- *)
VARIABLES
  \* DownloaderApp fields (UI thread)
  downloading,          \* self.downloading
  cancel_event,         \* self.cancel_event.is_set()
  target_dir,           \* self.target_dir is not None
  ffmpeg_ok,            \* self.ffmpeg_ok
  expand_playlist_var,  \* self.expand_playlist_var
  container_var,        \* self.container_var
  overall_progress,     \* value of the overall progress bar, [num, den]
  item_progress,        \* value of the item progress bar
  error_dialog,         \* title of the error box the last start request showed ("": none)
  ui_pc,                \* "idle" or "drain": the UI thread is inside process_progress_queue
  \* the process
  ytdlp,                \* the yt_dlp module could be imported
  progress_q,           \* self.progress_q
  \* _download_worker locals
  pc,                   \* position of the worker thread
  urls,                 \* the worker's argument
  planned,              \* planned
  idx,                  \* idx of the for loop (0 before the first task)
  title,                \* title
  private_detected,     \* private_detected
  fallback_counter,     \* dl_ctx.fallback_counter
  dl_ctx,               \* dl_ctx, the DownloadContext of the current task
  hooks,                \* progress callbacks made by the running invocation
  \* history of the current run
  run,                  \* number of workers started so far
  statuses,             \* the status and done events the worker posted in this run
  inv,                  \* invocations of the external downloader for the current task
  hist                  \* facts about the tasks of this run, see Init

vars == <<downloading, cancel_event, target_dir, ffmpeg_ok, expand_playlist_var,
          container_var, overall_progress, item_progress, error_dialog, ui_pc, ytdlp,
          progress_q, pc, urls, planned, idx, title, private_detected, fallback_counter,
          dl_ctx, hooks, run, statuses, inv, hist>>

uiVars == <<downloading, cancel_event, target_dir, ffmpeg_ok, expand_playlist_var,
            overall_progress, item_progress, error_dialog, ui_pc>>
workerVars == <<pc, urls, planned, idx, title, private_detected, fallback_counter, dl_ctx,
                hooks>>

total == Len(planned)

\* config.py:1
DEFAULT_CONTAINER == "mkv"

\* the choices of the container menu (ui.py:179)
Containers == {"mkv", "mp4", "mp3"}

\* no DownloadContext built yet in this run
NoCtx == [merge_format |-> ""]

\* ui.py:402-410, DownloadContext(merge_format=self.container_var.get(), ...)
DownloadContext(merge_format) == [merge_format |-> merge_format]

\* hist: what happened in this run
\*   private      the tasks detected as private
\*   probe_failed the title probe of the current task raised without the private marker
\*   called       download_single was called for the current task
\*   ds_probe_failed  the title probe inside download_single raised for the current task
\*   failed       task at which download_single raised an error other than cancellation (0: none)
\*   hook_cancel  task at which a progress callback raised CancelledDownloadError (0: none)
\*   boundary     task before which the worker found the cancellation flag set (0: none)
\*   pct          the last percent a callback reported for the current task (-1: none yet)
\*   mono         no callback of this run reported less than the callback before it
\*                for the same task
\*   container    the container format selected when the run was started
NoHist == [private |-> {}, probe_failed |-> FALSE, called |-> FALSE, ds_probe_failed |-> FALSE,
           failed |-> 0, hook_cancel |-> 0, boundary |-> 0, pct |-> -1, mono |-> TRUE,
           container |-> DEFAULT_CONTAINER]

\* DownloaderApp.__init__ (ui.py:35-87): the last folder and the playlist
\* option come from the settings file; yt_dlp is installed or not for the
\* life of the process (downloader_service.py:14-18)
Init ==
  /\ downloading = FALSE
  /\ cancel_event = FALSE
  /\ target_dir \in BOOLEAN
  /\ ffmpeg_ok = FALSE
  /\ expand_playlist_var \in BOOLEAN
  /\ container_var = DEFAULT_CONTAINER
  /\ overall_progress = [num |-> 0, den |-> 1]
  /\ item_progress = 0
  /\ error_dialog = ""
  /\ ui_pc = "idle"
  /\ ytdlp \in BOOLEAN
  /\ progress_q = <<>>
  /\ pc = "none"
  /\ urls = <<>>
  /\ planned = <<>>
  /\ idx = 0
  /\ title = ""
  /\ private_detected = FALSE
  /\ fallback_counter = 1
  /\ dl_ctx = NoCtx
  /\ hooks = 0
  /\ run = 0
  /\ statuses = <<>>
  /\ inv = <<>>
  /\ hist = NoHist

(* ----------------------------- UI handlers ----------------------------- *)
\* DownloaderApp._choose_folder with a folder picked
ChooseFolder ==
  /\ ui_pc = "idle"
  /\ target_dir' = TRUE
  /\ UNCHANGED <<downloading, cancel_event, ffmpeg_ok, expand_playlist_var, overall_progress,
                 item_progress, error_dialog, ui_pc, ytdlp, container_var, progress_q, workerVars, run,
                 statuses, inv, hist>>

\* the container menu (ui.py:179): the user picks a format; the menu stays
\* enabled while a batch runs
SetContainer(c) ==
  /\ ui_pc = "idle"
  /\ container_var' = c
  /\ UNCHANGED <<downloading, cancel_event, target_dir, ffmpeg_ok, expand_playlist_var,
                 overall_progress, item_progress, error_dialog, ui_pc, ytdlp, progress_q,
                 workerVars, run, statuses, inv, hist>>

\* DownloaderApp._ffmpeg_check_worker (its own thread): self.ffmpeg_ok = ok.
\* A check that fails leaves the initial False; the toolchain, once found,
\* is taken to stay installed for the session.
FfmpegCheckWorker ==
  /\ ~ffmpeg_ok
  /\ ffmpeg_ok' = TRUE
  /\ UNCHANGED <<downloading, cancel_event, target_dir, expand_playlist_var, overall_progress,
                 item_progress, error_dialog, ui_pc, ytdlp, container_var, progress_q, workerVars, run,
                 statuses, inv, hist>>

\* ui.py:271-278: the value of expand_playlist_var after the playlist prompt
ExpandAfterPrompt(us, yes) ==
  IF ~expand_playlist_var /\ (\E i \in 1..Len(us) : looks_like_playlist_url(us[i])) /\ yes
  THEN TRUE ELSE expand_playlist_var

\* DownloaderApp._start_download without self.cancel_event.clear()
StartDownload_NoClear(words, yes) ==
  LET us == collect_urls(words) IN
  /\ ui_pc = "idle"
  /\ IF downloading THEN UNCHANGED vars
     ELSE IF us = <<>> THEN
       /\ error_dialog' = "Missing URLs"
       /\ UNCHANGED <<downloading, cancel_event, target_dir, ffmpeg_ok, expand_playlist_var,
                      overall_progress, item_progress, ui_pc, ytdlp, container_var, progress_q, workerVars,
                      run, statuses, inv, hist>>
     ELSE IF ~target_dir THEN
       /\ error_dialog' = "Choose Folder"
       /\ UNCHANGED <<downloading, cancel_event, target_dir, ffmpeg_ok, expand_playlist_var,
                      overall_progress, item_progress, ui_pc, ytdlp, container_var, progress_q, workerVars,
                      run, statuses, inv, hist>>
     ELSE IF ~ffmpeg_ok THEN
       /\ expand_playlist_var' = ExpandAfterPrompt(us, yes)
       /\ item_progress' = 0
       /\ overall_progress' = [num |-> 0, den |-> 1]
       /\ error_dialog' = "FFmpeg Required"
       /\ downloading' = FALSE
       /\ UNCHANGED <<cancel_event, target_dir, ffmpeg_ok, ui_pc, ytdlp, container_var, progress_q,
                      workerVars, run, statuses, inv, hist>>
     ELSE
       /\ run < MaxRuns
       /\ expand_playlist_var' = ExpandAfterPrompt(us, yes)
       /\ downloading' = TRUE
       /\ item_progress' = 0
       /\ overall_progress' = [num |-> 0, den |-> 1]
       /\ error_dialog' = ""
       \* threading.Thread(target=self._download_worker, args=(urls,)).start()
       /\ pc' = "plan"
       /\ urls' = us
       /\ planned' = <<>>
       /\ idx' = 0
       /\ title' = ""
       /\ private_detected' = FALSE
       /\ fallback_counter' = 1
       /\ dl_ctx' = NoCtx
       /\ hooks' = 0
       /\ run' = run + 1
       /\ statuses' = <<>>
       /\ inv' = <<>>
       /\ hist' = [NoHist EXCEPT !.container = container_var]
       /\ UNCHANGED <<cancel_event, target_dir, ffmpeg_ok, ui_pc, ytdlp, container_var,
                      progress_q>>

\* DownloaderApp._start_download; words is the content of the URL box, yes the
\* user's answer to the "Playlist detected" question if it is asked
StartDownload(words, yes) ==
  LET us == collect_urls(words) IN
  /\ ui_pc = "idle"
  /\ IF downloading THEN UNCHANGED vars
     ELSE IF us = <<>> THEN
       /\ error_dialog' = "Missing URLs"
       /\ UNCHANGED <<downloading, cancel_event, target_dir, ffmpeg_ok, expand_playlist_var,
                      overall_progress, item_progress, ui_pc, ytdlp, container_var, progress_q, workerVars,
                      run, statuses, inv, hist>>
     ELSE IF ~target_dir THEN
       /\ error_dialog' = "Choose Folder"
       /\ UNCHANGED <<downloading, cancel_event, target_dir, ffmpeg_ok, expand_playlist_var,
                      overall_progress, item_progress, ui_pc, ytdlp, container_var, progress_q, workerVars,
                      run, statuses, inv, hist>>
     ELSE IF ~ffmpeg_ok THEN
       /\ expand_playlist_var' = ExpandAfterPrompt(us, yes)
       /\ item_progress' = 0
       /\ overall_progress' = [num |-> 0, den |-> 1]
       /\ error_dialog' = "FFmpeg Required"
       /\ downloading' = FALSE
       /\ UNCHANGED <<cancel_event, target_dir, ffmpeg_ok, ui_pc, ytdlp, container_var, progress_q,
                      workerVars, run, statuses, inv, hist>>
     ELSE
       /\ run < MaxRuns
       /\ expand_playlist_var' = ExpandAfterPrompt(us, yes)
       /\ downloading' = TRUE
       /\ item_progress' = 0
       /\ overall_progress' = [num |-> 0, den |-> 1]
       /\ error_dialog' = ""
       /\ cancel_event' = FALSE
       \* threading.Thread(target=self._download_worker, args=(urls,)).start()
       /\ pc' = "plan"
       /\ urls' = us
       /\ planned' = <<>>
       /\ idx' = 0
       /\ title' = ""
       /\ private_detected' = FALSE
       /\ fallback_counter' = 1
       /\ dl_ctx' = NoCtx
       /\ hooks' = 0
       /\ run' = run + 1
       /\ statuses' = <<>>
       /\ inv' = <<>>
       /\ hist' = [NoHist EXCEPT !.container = container_var]
       /\ UNCHANGED <<target_dir, ffmpeg_ok, ui_pc, ytdlp, container_var, progress_q>>

\* DownloaderApp._cancel_download without the test of self.downloading
CancelDownload_Always ==
  /\ ui_pc = "idle"
  /\ cancel_event' = TRUE
  /\ UNCHANGED <<downloading, target_dir, ffmpeg_ok, expand_playlist_var,
                 overall_progress, item_progress, error_dialog, ui_pc, ytdlp, container_var,
                 progress_q, workerVars, run, statuses, inv, hist>>

\* DownloaderApp._cancel_download
CancelDownload ==
  /\ ui_pc = "idle"
  /\ IF ~downloading THEN UNCHANGED vars
     ELSE /\ cancel_event' = TRUE
          /\ UNCHANGED <<downloading, target_dir, ffmpeg_ok, expand_playlist_var,
                         overall_progress, item_progress, error_dialog, ui_pc, ytdlp, container_var,
                         progress_q, workerVars, run, statuses, inv, hist>>

(* ------------------------------ the worker ----------------------------- *)
\* self.progress_q.put(ev) by the worker; status and done events are also
\* kept, without the title, in the run's history
Put(ev) ==
  /\ Len(progress_q) < MaxQueue
  /\ progress_q' = Append(progress_q, ev)
  /\ statuses' = IF ev.type \in {"status", "done"}
                 THEN Append(statuses, [ev EXCEPT !.title = ""]) ELSE statuses

\* ui.py:326, planned = plan_downloads(urls, self.expand_playlist_var.get())
WorkerPlan ==
  /\ pc = "plan"
  /\ \E probes \in [1..Len(urls) -> BatchProbes] :
       planned' = plan_downloads(urls, expand_playlist_var, ytdlp, probes)
  /\ pc' = "total_label"
  /\ UNCHANGED <<uiVars, ytdlp, container_var, progress_q, urls, idx, title, private_detected,
                 fallback_counter, dl_ctx, hooks, run, statuses, inv, hist>>

\* ui.py:327-330, the "Total items ? / total" label when there are tasks
WorkerTotalLabel ==
  /\ pc = "total_label"
  /\ IF total > 0 THEN Put(LabelEv("overall", "Total items ?", "", 0, total))
     ELSE UNCHANGED <<progress_q, statuses>>
  /\ pc' = "loop"
  /\ UNCHANGED <<uiVars, ytdlp, container_var, urls, planned, idx, title, private_detected,
                 fallback_counter, dl_ctx, hooks, run, inv, hist>>

\* WorkerLoop that posts "Cancelled" at the boundary and goes on with the task
WorkerLoop_NoBreak ==
  /\ pc = "loop"
  /\ IF idx = total THEN
       /\ pc' = "all_done"
       /\ UNCHANGED <<progress_q, statuses, idx, hist>>
     ELSE
       /\ idx' = idx + 1
       /\ IF cancel_event THEN Put(StatusEv("Cancelled", "", 0))
          ELSE Put(LabelEv("overall", "Total items", "", idx + 1, total))
       /\ pc' = "probe"
       /\ hist' = [hist EXCEPT !.probe_failed = FALSE, !.called = FALSE, !.ds_probe_failed = FALSE,
                               !.pct = -1, !.boundary = IF cancel_event THEN idx + 1 ELSE @]
  /\ UNCHANGED <<uiVars, ytdlp, container_var, urls, planned, title, private_detected,
                 fallback_counter, dl_ctx, hooks, run, inv>>

\* ui.py:331-336, the head of the for loop: the next task, the cancellation
\* check at the task boundary (break leaves the loop for line 432), the
\* "Total items idx / total" label
WorkerLoop ==
  /\ pc = "loop"
  /\ IF idx = total THEN
       /\ pc' = "all_done"
       /\ UNCHANGED <<progress_q, statuses, idx, hist>>
     ELSE IF cancel_event THEN
       /\ Put(StatusEv("Cancelled", "", 0))
       /\ pc' = "all_done"
       /\ hist' = [hist EXCEPT !.boundary = idx + 1]
       /\ UNCHANGED idx
     ELSE
       /\ idx' = idx + 1
       /\ Put(LabelEv("overall", "Total items", "", idx + 1, total))
       /\ pc' = "probe"
       /\ hist' = [hist EXCEPT !.probe_failed = FALSE, !.called = FALSE, !.ds_probe_failed = FALSE,
                               !.pct = -1]
  /\ UNCHANGED <<uiVars, ytdlp, container_var, urls, planned, title, private_detected,
                 fallback_counter, dl_ctx, hooks, run, inv>>

\* ui.py:347-367: the title of the task, probed when the planner gave none,
\* and the detection of private content.  out is the extractor's answer:
\* "info" with title t, "raise private" (message contains "Private video")
\* or "raise" (any other failure).  Without yt_dlp the import raises.
ProbeOutcomes == {"info", "raise private", "raise"}
ProbeTitles == {"", "Clip", "Private video", "[PRIVATE VIDEO] x"}
WorkerProbe ==
  /\ pc = "probe"
  /\ LET entry_title == planned[idx].entry_title IN
     IF entry_title # "" THEN
       /\ title' = entry_title
       /\ private_detected' = TitleIsPrivate(entry_title)
       /\ hist' = IF TitleIsPrivate(entry_title)
                  THEN [hist EXCEPT !.private = @ \cup {idx}] ELSE hist
     ELSE IF ~ytdlp THEN
       /\ title' = ""
       /\ private_detected' = FALSE
       /\ hist' = [hist EXCEPT !.probe_failed = TRUE]
     ELSE \E out \in ProbeOutcomes, t \in ProbeTitles :
       /\ out # "info" => t = ""
       /\ title' = IF out = "info" THEN t ELSE ""
       /\ private_detected' = (out = "raise private" \/ (out = "info" /\ TitleIsPrivate(t)))
       /\ hist' = IF out = "raise" THEN [hist EXCEPT !.probe_failed = TRUE]
                  ELSE IF private_detected' THEN [hist EXCEPT !.private = @ \cup {idx}]
                  ELSE hist
  /\ pc' = "label_file"
  /\ UNCHANGED <<uiVars, ytdlp, container_var, progress_q, urls, planned, idx, fallback_counter, dl_ctx, hooks,
                 run, statuses, inv>>

\* ui.py:341, is_playlist
is_playlist(task) == task.pl_count > 0

\* ui.py:369-374, the fixed part of file_label
FileLabel(task) == IF is_playlist(task) THEN "Playlist item" ELSE "YouTube Video"

\* ui.py:375
WorkerLabelFile ==
  /\ pc = "label_file"
  /\ Put(LabelEv("file", FileLabel(planned[idx]), title, idx, total))
  /\ pc' = "label_item"
  /\ UNCHANGED <<uiVars, ytdlp, container_var, urls, planned, idx, title, private_detected,
                 fallback_counter, dl_ctx, hooks, run, inv, hist>>

\* WorkerLabelItem without the branch that skips a private item
WorkerLabelItem_NoSkip ==
  /\ pc = "label_item"
  /\ Put(LabelEv("current_item", FileLabel(planned[idx]), title, idx, total))
  /\ pc' = "call"
  /\ UNCHANGED <<uiVars, ytdlp, container_var, urls, planned, idx, title, private_detected,
                 fallback_counter, dl_ctx, hooks, run, inv, hist>>

\* ui.py:376 and the branch of line 379
WorkerLabelItem ==
  /\ pc = "label_item"
  /\ Put(LabelEv("current_item", FileLabel(planned[idx]), title, idx, total))
  /\ pc' = IF private_detected THEN "skip_status" ELSE "call"
  /\ UNCHANGED <<uiVars, ytdlp, container_var, urls, planned, idx, title, private_detected,
                 fallback_counter, dl_ctx, hooks, run, inv, hist>>

\* ui.py:379-385, the status that documents the skip
WorkerSkipStatus ==
  /\ pc = "skip_status"
  /\ Put(StatusEv("Skipping", title, idx))
  /\ pc' = "skip_progress"
  /\ UNCHANGED <<uiVars, ytdlp, container_var, urls, planned, idx, title, private_detected,
                 fallback_counter, dl_ctx, hooks, run, inv, hist>>

\* ui.py:386-392, overall progress after the skip, then continue
WorkerSkipProgress ==
  /\ pc = "skip_progress"
  /\ Put(SkipProgressEv(idx, total))
  /\ pc' = "loop"
  /\ UNCHANGED <<uiVars, ytdlp, container_var, urls, planned, idx, title, private_detected,
                 fallback_counter, dl_ctx, hooks, run, inv, hist>>

\* ui.py:394-431 and downloader_service.py:64-66: a new DownloadContext
\* (fallback_counter = 1) and the call of download_single, which raises
\* RuntimeError at once when yt_dlp is missing
WorkerCall ==
  /\ pc = "call"
  /\ dl_ctx' = DownloadContext(container_var)
  /\ fallback_counter' = 1
  /\ hist' = [hist EXCEPT !.called = TRUE,
                          !.failed = IF ytdlp THEN @ ELSE idx]
  /\ inv' = <<>>
  /\ pc' = IF ytdlp THEN "ds_probe" ELSE "error"
  /\ UNCHANGED <<uiVars, ytdlp, container_var, progress_q, urls, planned, idx, title, private_detected,
                 hooks, run, statuses>>

\* one invocation of ydl.download: the format asked for and how it ended
\* ("running", "returned", "raised", "cancelled")
Invocation(format, result) == [format |-> format, result |-> result]
SetResult(result) == [inv EXCEPT ![Len(inv)].result = result]

\* downloader_service.py:138-140: merge_fmt
merge_fmt(ctx) ==
  IF ctx.merge_format \in {"mkv", "mp4", "mp3"} THEN ctx.merge_format ELSE "mkv"

\* downloader_service.py:175-204: the postprocessors an invocation asks for.
\* The primary one ("selected") is built in the try block, with
\* FFmpegExtractAudio when merge_fmt is mp3; the retry ("best") is built in
\* the except block from ydl_opts_base with the format alone.
Postprocessors(format, ctx) ==
  IF format = "selected" /\ merge_fmt(ctx) = "mp3" THEN {"FFmpegExtractAudio"} ELSE {}

\* downloader_service.py:124-199: the title probe of download_single, the
\* file name (the synthetic name takes and increments the fallback counter),
\* then the primary invocation starts.  A probe that raises ends
\* download_single with that error.
DsProbe ==
  /\ pc = "ds_probe"
  /\ \E out \in {"info", "raise"}, t \in {"", "Clip"} :
       /\ out = "raise" => t = ""
       /\ IF out = "raise" THEN
            /\ pc' = "error"
            /\ hist' = [hist EXCEPT !.failed = idx, !.ds_probe_failed = TRUE]
            /\ UNCHANGED <<fallback_counter, dl_ctx, inv, hooks>>
          ELSE
            LET tt == IF planned[idx].entry_title # "" THEN planned[idx].entry_title ELSE t IN
            /\ fallback_counter' = IF tt = "" THEN fallback_counter + 1 ELSE fallback_counter
            /\ inv' = <<Invocation("selected", "running")>>
            /\ hooks' = 0
            /\ pc' = "download"
            /\ UNCHANGED <<dl_ctx, hist>>
  /\ UNCHANGED <<uiVars, ytdlp, container_var, progress_q, urls, planned, idx, title, private_detected,
                 run, statuses>>

\* AfterRaise that retries after every failure, the retry's included
AfterRaise_RetryAgain(result) ==
  /\ inv' = Append(SetResult(result), Invocation("best", "running"))
  /\ hooks' = 0
  /\ pc' = "download"
  /\ hist' = [hist EXCEPT !.hook_cancel = IF result = "cancelled" THEN idx ELSE @]

\* downloader_service.py:200-204: the except clause around the primary
\* invocation starts the retry with format "best"; an exception of the retry
\* leaves download_single
AfterRaise(result) ==
  IF Len(inv) = 1 THEN
    /\ inv' = <<Invocation("selected", result), Invocation("best", "running")>>
    /\ hooks' = 0
    /\ pc' = "download"
    /\ hist' = [hist EXCEPT !.hook_cancel = IF result = "cancelled" THEN idx ELSE @]
  ELSE
    /\ inv' = SetResult(result)
    /\ pc' = IF result = "cancelled" THEN "cancelled" ELSE "error"
    /\ hist' = [hist EXCEPT !.hook_cancel = IF result = "cancelled" THEN idx ELSE @,
                            !.failed = IF result = "cancelled" THEN @ ELSE idx]
    /\ UNCHANGED hooks

\* the history after a callback that reports percent p for the current task
Reported(p) == [hist EXCEPT !.pct = p, !.mono = @ /\ hist.pct <= p]

\* downloader_service.py:68-120: a "downloading" callback of the running
\* invocation, d = {downloaded_bytes: b, total_bytes: t}
HookDownloading ==
  /\ pc = "download"
  /\ hooks < MaxHooks
  /\ IF cancel_event THEN
       /\ AfterRaise("cancelled")
       /\ UNCHANGED <<progress_q, statuses>>
     ELSE \E b \in 0..MaxBytes, t \in Totals :
       /\ Put(ProgressEv("Downloading", idx, total, Percent(b, t)))
       /\ hooks' = hooks + 1
       /\ hist' = Reported(Percent(b, t))
       /\ UNCHANGED <<pc, inv>>
  /\ UNCHANGED <<uiVars, ytdlp, container_var, urls, planned, idx, title, private_detected,
                 fallback_counter, dl_ctx, run>>

\* downloader_service.py:121-122: a "finished" callback
HookFinished ==
  /\ pc = "download"
  /\ hooks < MaxHooks
  /\ Put(ProgressEv("Merging", idx, total, 100))
  /\ hooks' = hooks + 1
  /\ hist' = Reported(100)
  /\ UNCHANGED <<uiVars, ytdlp, container_var, pc, urls, planned, idx, title, private_detected,
                 fallback_counter, dl_ctx, run, inv>>

\* ydl.download returns: download_single goes on to line 206
DownloadReturns ==
  /\ pc = "download"
  /\ inv' = SetResult("returned")
  /\ pc' = "saved_label"
  /\ UNCHANGED <<uiVars, ytdlp, container_var, progress_q, urls, planned, idx, title, private_detected,
                 fallback_counter, dl_ctx, hooks, run, statuses, hist>>

\* ydl.download raises an error of its own
DownloadRaises ==
  /\ pc = "download"
  /\ AfterRaise("raised")
  /\ UNCHANGED <<uiVars, ytdlp, container_var, progress_q, urls, planned, idx, title, private_detected,
                 fallback_counter, dl_ctx, run, statuses>>

\* downloader_service.py:206 through ui.py:424-428: the saved_to label
WorkerSavedLabel ==
  /\ pc = "saved_label"
  /\ Put(LabelEv("saved_to", "Saved to:", "", idx, total))
  /\ pc' = "saved_status"
  /\ UNCHANGED <<uiVars, ytdlp, container_var, urls, planned, idx, title, private_detected,
                 fallback_counter, dl_ctx, hooks, run, inv, hist>>

\* WorkerSavedStatus after which download_single is called again for the task
WorkerSavedStatus_CallAgain ==
  /\ pc = "saved_status"
  /\ Put(StatusEv("Saved to:", "", idx))
  /\ pc' = "call"
  /\ UNCHANGED <<uiVars, ytdlp, container_var, urls, planned, idx, title, private_detected,
                 fallback_counter, dl_ctx, hooks, run, inv, hist>>

\* ui.py:429: the "Saved to:" status; download_single returns
WorkerSavedStatus ==
  /\ pc = "saved_status"
  /\ Put(StatusEv("Saved to:", "", idx))
  /\ pc' = "loop"
  /\ UNCHANGED <<uiVars, ytdlp, container_var, urls, planned, idx, title, private_detected,
                 fallback_counter, dl_ctx, hooks, run, inv, hist>>

\* ui.py:432: the statement after the for loop
WorkerAllDone ==
  /\ pc = "all_done"
  /\ Put(StatusEv("All done", "", 0))
  /\ pc' = "done"
  /\ UNCHANGED <<uiVars, ytdlp, container_var, urls, planned, idx, title, private_detected,
                 fallback_counter, dl_ctx, hooks, run, inv, hist>>

\* ui.py:433-434: except CancelledDownloadError
WorkerCancelled ==
  /\ pc = "cancelled"
  /\ Put(StatusEv("Cancelled", "", 0))
  /\ pc' = "done"
  /\ UNCHANGED <<uiVars, ytdlp, container_var, urls, planned, idx, title, private_detected,
                 fallback_counter, dl_ctx, hooks, run, inv, hist>>

\* WorkerError as if there were no finally clause: the thread ends after the status
WorkerError_NoFinally ==
  /\ pc = "error"
  /\ Put(StatusEv("Error:", "", 0))
  /\ pc' = "finished"
  /\ UNCHANGED <<uiVars, ytdlp, container_var, urls, planned, idx, title, private_detected,
                 fallback_counter, dl_ctx, hooks, run, inv, hist>>

\* WorkerError as if the except clause were inside the loop: the next task runs
WorkerError_Continue ==
  /\ pc = "error"
  /\ Put(StatusEv("Error:", "", 0))
  /\ pc' = "loop"
  /\ UNCHANGED <<uiVars, ytdlp, container_var, urls, planned, idx, title, private_detected,
                 fallback_counter, dl_ctx, hooks, run, inv, hist>>

\* ui.py:435-439: except Exception
WorkerError ==
  /\ pc = "error"
  /\ Put(StatusEv("Error:", "", 0))
  /\ pc' = "done"
  /\ UNCHANGED <<uiVars, ytdlp, container_var, urls, planned, idx, title, private_detected,
                 fallback_counter, dl_ctx, hooks, run, inv, hist>>

\* WorkerDone that ends the thread without posting done
WorkerDone_Lost ==
  /\ pc = "done"
  /\ pc' = "finished"
  /\ UNCHANGED <<uiVars, ytdlp, container_var, progress_q, urls, planned, idx, title, private_detected,
                 fallback_counter, dl_ctx, hooks, run, statuses, inv, hist>>

\* ui.py:440-441: finally; the thread ends
WorkerDone ==
  /\ pc = "done"
  /\ Put(DoneEv)
  /\ pc' = "finished"
  /\ UNCHANGED <<uiVars, ytdlp, container_var, urls, planned, idx, title, private_detected,
                 fallback_counter, dl_ctx, hooks, run, inv, hist>>

(* ----------------------------- the consumer ---------------------------- *)
\* ConsumerGet that clears the downloading guard on any status event
ConsumerGet_ClearOnStatus ==
  /\ progress_q # <<>>
  /\ LET item == Head(progress_q) IN
     /\ progress_q' = Tail(progress_q)
     /\ ui_pc' = "drain"
     /\ overall_progress' = IF item.type = "progress"
                            THEN [num |-> item.num, den |-> item.den] ELSE overall_progress
     /\ item_progress' = IF item.type = "progress" /\ item.pct # -1
                         THEN item.pct ELSE item_progress
     /\ downloading' = IF item.type \in {"done", "status"} THEN FALSE ELSE downloading
  /\ UNCHANGED <<cancel_event, target_dir, ffmpeg_ok, expand_playlist_var, error_dialog,
                 ytdlp, container_var, workerVars, run, statuses, inv, hist>>

\* ConsumerGet taking the event posted last instead of the oldest one
ConsumerGet_TakeLast ==
  /\ progress_q # <<>>
  /\ LET item == Last(progress_q) IN
     /\ progress_q' = SubSeq(progress_q, 1, Len(progress_q) - 1)
     /\ ui_pc' = "drain"
     /\ overall_progress' = IF item.type = "progress"
                            THEN [num |-> item.num, den |-> item.den] ELSE overall_progress
     /\ item_progress' = IF item.type = "progress" /\ item.pct # -1
                         THEN item.pct ELSE item_progress
     /\ downloading' = IF item.type = "done" THEN FALSE ELSE downloading
  /\ UNCHANGED <<cancel_event, target_dir, ffmpeg_ok, expand_playlist_var, error_dialog,
                 ytdlp, container_var, workerVars, run, statuses, inv, hist>>

\* progress_ui.py:19-132: one get_nowait() of process_progress_queue and the
\* handling of the item
ConsumerGet ==
  /\ progress_q # <<>>
  /\ LET item == Head(progress_q) IN
     /\ progress_q' = Tail(progress_q)
     /\ ui_pc' = "drain"
     /\ overall_progress' = IF item.type = "progress"
                            THEN [num |-> item.num, den |-> item.den] ELSE overall_progress
     /\ item_progress' = IF item.type = "progress" /\ item.pct # -1
                         THEN item.pct ELSE item_progress
     /\ downloading' = IF item.type = "done" THEN FALSE ELSE downloading
  /\ UNCHANGED <<cancel_event, target_dir, ffmpeg_ok, expand_playlist_var, error_dialog,
                 ytdlp, container_var, workerVars, run, statuses, inv, hist>>

\* ConsumerRaises in which the error comes before the done branch has
\* cleared the downloading guard
ConsumerRaises_GuardKept ==
  /\ progress_q # <<>>
  /\ progress_q' = Tail(progress_q)
  /\ ui_pc' = "idle"
  /\ UNCHANGED <<downloading, cancel_event, target_dir, ffmpeg_ok, expand_playlist_var,
                 overall_progress, item_progress, error_dialog, ytdlp, container_var,
                 workerVars, run, statuses, inv, hist>>

\* progress_ui.py:16-136 when the handling of an item raises an error other
\* than queue.Empty at its first widget call: the item is off the queue, the
\* bars are as they were, the poll ends and finally reschedules it.  In the
\* done branch the guard is cleared (line 129) before any widget call.
ConsumerRaises ==
  /\ progress_q # <<>>
  /\ progress_q' = Tail(progress_q)
  /\ ui_pc' = "idle"
  /\ downloading' = IF Head(progress_q).type = "done" THEN FALSE ELSE downloading
  /\ UNCHANGED <<cancel_event, target_dir, ffmpeg_ok, expand_playlist_var,
                 overall_progress, item_progress, error_dialog, ytdlp, container_var,
                 workerVars, run, statuses, inv, hist>>

\* ConsumerEmpty that also re-enables the start controls
ConsumerEmpty_Reenable ==
  /\ ui_pc = "drain"
  /\ progress_q = <<>>
  /\ ui_pc' = "idle"
  /\ downloading' = FALSE
  /\ UNCHANGED <<cancel_event, target_dir, ffmpeg_ok, expand_playlist_var,
                 overall_progress, item_progress, error_dialog, ytdlp, container_var,
                 progress_q, workerVars, run, statuses, inv, hist>>

\* progress_ui.py:133-136: queue.Empty ends the poll, which reschedules itself
ConsumerEmpty ==
  /\ ui_pc = "drain"
  /\ progress_q = <<>>
  /\ ui_pc' = "idle"
  /\ UNCHANGED <<downloading, cancel_event, target_dir, ffmpeg_ok, expand_playlist_var,
                 overall_progress, item_progress, error_dialog, ytdlp, container_var, progress_q,
                 workerVars, run, statuses, inv, hist>>

(* --------------------------- specifications ---------------------------- *)
Worker ==
  \/ WorkerPlan \/ WorkerTotalLabel \/ WorkerLoop \/ WorkerProbe \/ WorkerLabelFile
  \/ WorkerLabelItem \/ WorkerSkipStatus \/ WorkerSkipProgress \/ WorkerCall \/ DsProbe
  \/ HookDownloading \/ HookFinished \/ DownloadReturns \/ DownloadRaises
  \/ WorkerSavedLabel \/ WorkerSavedStatus \/ WorkerAllDone \/ WorkerCancelled
  \/ WorkerError \/ WorkerDone

Next ==
  \/ ChooseFolder
  \/ FfmpegCheckWorker
  \/ \E words \in UrlBoxes, yes \in BOOLEAN : StartDownload(words, yes)
  \/ CancelDownload
  \/ Worker
  \/ ConsumerGet
  \/ ConsumerEmpty

Spec == Init /\ [][Next]_vars

TypeOK ==
  /\ downloading \in BOOLEAN
  /\ Len(progress_q) <= MaxQueue
  /\ idx \in 0..total

(* ------------------------ history of a run ----------------------------- *)
\* positions of the status events with the given text
StatusAt(text) == {i \in 1..Len(statuses) : statuses[i].type = "status" /\ statuses[i].text = text}
StatusOf(text, task) == {i \in StatusAt(text) : statuses[i].task = task}
DoneAt == {i \in 1..Len(statuses) : statuses[i].type = "done"}
RunOver == pc = "finished"

\* the run ends with status "text" followed by done
EndsWith(text) ==
  /\ Len(statuses) >= 2
  /\ statuses[Len(statuses)] = DoneEv
  /\ statuses[Len(statuses) - 1] = StatusEv(text, "", 0)

\* a step of the worker that posts at least one event
Posts == Len(progress_q') > Len(progress_q)

\* every event the worker has posted and the consumer may still see, plus the
\* status history, is about a task below b
NoEventFrom(b) ==
  /\ \A i \in 1..Len(progress_q) : progress_q[i].task < b
  /\ \A i \in 1..Len(statuses) : statuses[i].task < b

(* ------------------------------- claims -------------------------------- *)
\* C1: in every run the worker posts exactly one done event and it is the
\* last event of the run: a finished worker has posted one done, no run has
\* two, and once done is posted the worker posts nothing more in that run.
C1_OneDoneLast ==
  /\ [](/\ Cardinality(DoneAt) <= 1
        /\ RunOver <=> Cardinality(DoneAt) = 1
        /\ DoneAt # {} => Last(statuses) = DoneEv)
  /\ [][DoneAt # {} /\ run' = run => ~Posts]_vars

C1_Witness ==
  /\ RunOver /\ total = 2
  /\ StatusOf("Skipping", 1) # {} /\ StatusOf("Saved to:", 2) # {}
  /\ Last(statuses) = DoneEv

Completed(i) == StatusOf("Skipping", i) # {} \/ StatusOf("Saved to:", i) # {}
C3_PrivateSkipped ==
  /\ hist.called => idx \notin hist.private
  /\ \A i \in 1..total :
       /\ Cardinality(StatusOf("Skipping", i)) <= 1
       /\ StatusOf("Skipping", i) # {} => i \in hist.private /\ StatusOf("Saved to:", i) = {}
       /\ i \in hist.private /\ (i < idx \/ pc \in {"skip_progress", "loop", "all_done", "done", "finished"})
            => Cardinality(StatusOf("Skipping", i)) = 1
       /\ i \in hist.private /\ RunOver /\ i < total /\ hist.boundary # i + 1 => idx > i
  /\ RunOver /\ (\A i \in 1..total : Completed(i)) => EndsWith("All done")

C3_Witness ==
  /\ RunOver /\ total = 2 /\ hist.private = {1}
  /\ StatusOf("Skipping", 1) # {} /\ StatusOf("Saved to:", 2) # {}
  /\ EndsWith("All done")

\* C4 (as claimed): a task whose metadata probe fails never aborts the batch:
\* the run never reports "Error:" for it.
C4_ProbeFailureIsolated ==
  ytdlp /\ hist.probe_failed /\ hist.ds_probe_failed => StatusAt("Error:") = {} /\ pc # "error"

\* C5: when the flag is found set before task b, the worker posts exactly one
\* "Cancelled", starts no download and posts no event of task b or a later
\* task, and ends the run with done.
C5_BoundaryCancel ==
  hist.boundary > 0 =>
    /\ idx = hist.boundary - 1
    /\ pc \in {"all_done", "done", "finished"}
    /\ Cardinality(StatusAt("Cancelled")) = 1
    /\ NoEventFrom(hist.boundary)
    /\ RunOver => Last(statuses) = DoneEv

C5_Witness ==
  /\ RunOver /\ total = 2 /\ hist.boundary = 2
  /\ StatusOf("Saved to:", 1) # {} /\ Cardinality(StatusAt("Cancelled")) = 1

\* C6 (as claimed): no run posts both "Cancelled" and "All done".
C6_NoAllDoneAfterCancelled ==
  StatusAt("Cancelled") # {} => StatusAt("All done") = {}

\* C7 (as claimed): once a progress callback raised the cancellation, the
\* downloader is not invoked again for that task and the task is not saved.
C7_CancelAbortsAtOnce ==
  /\ \A k \in 1..Len(inv) : inv[k].result = "cancelled" => k = Len(inv)
  /\ hist.hook_cancel > 0 => StatusOf("Saved to:", hist.hook_cancel) = {}

\* C8 (as claimed): a run in which a callback raised the cancellation ends
\* with "Cancelled" then done and never reports "Error:".
C8_CancelNeverError ==
  hist.hook_cancel > 0 =>
    /\ StatusAt("Error:") = {}
    /\ RunOver => EndsWith("Cancelled")

\* C9: at most two invocations per task: the first with the selected format,
\* the second, with "best", exactly when the first failed; a failure of the
\* second leaves download_single as an error (or the cancellation).
Failed(r) == r \in {"raised", "cancelled"}
C9_AtMostOneRetry ==
  /\ Len(inv) <= 2
  /\ Len(inv) >= 1 => inv[1].format = "selected"
  /\ Len(inv) >= 1 => (Failed(inv[1].result) <=> Len(inv) = 2)
  /\ Len(inv) = 2 => inv[2].format = "best"
  /\ Len(inv) = 2 /\ inv[2].result = "raised" =>
       /\ hist.failed = idx
       /\ pc \in {"error", "done", "finished"}
       /\ StatusOf("Saved to:", idx) = {}
  /\ Len(inv) = 2 /\ inv[2].result = "cancelled" => pc \in {"cancelled", "done", "finished"}

C9_Witness ==
  /\ Len(inv) = 2 /\ inv[1].result = "raised" /\ inv[2].result = "raised"
  /\ RunOver /\ StatusAt("Error:") # {}

\* C10: when download_single fails at task f with an error other than the
\* cancellation, no later task is processed, exactly one "Error:" status is
\* posted, then done, and no "All done".
C10_FailureAborts ==
  /\ Cardinality(StatusAt("Error:")) <= 1
  /\ hist.failed > 0 =>
       /\ idx = hist.failed
       /\ pc \in {"error", "done", "finished"}
       /\ NoEventFrom(hist.failed + 1)
       /\ StatusAt("All done") = {}
       /\ pc \in {"done", "finished"} => Cardinality(StatusAt("Error:")) = 1
       /\ RunOver => EndsWith("Error:")

C10_Witness ==
  /\ RunOver /\ total = 2 /\ hist.failed = 1
  /\ Len(inv) = 2 /\ inv[2].result = "raised" /\ EndsWith("Error:")

\* C11: at most one run is active: while the downloading guard is false no
\* worker is between its start and its done event, and a worker is started
\* only from a state in which the guard is false and no worker is active.
WorkerActive == pc \notin {"none", "finished"}
C11_OneActiveRun ==
  /\ [](~downloading => ~WorkerActive)
  /\ [][run' # run => ~downloading /\ ~WorkerActive /\ downloading' /\ pc' = "plan"]_vars

C11_Witness == run = 2 /\ WorkerActive /\ downloading /\ cancel_event

\* C12 (as claimed): a start request that is refused for want of URLs, of a
\* target directory or of the media toolchain leaves the guard, the
\* cancellation flag, the playlist option, the progress values, the queue
\* and the worker as they were.
RefusedStart(words, yes) ==
  /\ StartDownload(words, yes)
  /\ ~downloading
  /\ collect_urls(words) = <<>> \/ ~target_dir \/ ~ffmpeg_ok
C12_RefusedStartChangesNothing ==
  [][\A words \in UrlBoxes, yes \in BOOLEAN :
       RefusedStart(words, yes) =>
         UNCHANGED <<downloading, cancel_event, expand_playlist_var, overall_progress,
                     item_progress, progress_q, pc, run>>]_vars

\* C13 (as claimed): when the extractor is missing the worker posts no event
\* of a task (no item label, no progress) before it reports the error.
TaskEvent(ev) ==
  \/ ev.type = "progress"
  \/ ev.type = "label" /\ ev.which \in {"file", "current_item"}
C13_NoTaskEventWithoutExtractor ==
  ~ytdlp => \A i \in 1..Len(progress_q) : ~TaskEvent(progress_q[i])

\* the progress events waiting in the queue, and the overall value of the
\* last progress event posted: the last one waiting or, when all have been
\* handled, the value the consumer gave the overall bar
ProgressIn(q) == {i \in 1..Len(q) : q[i].type = "progress"}
LastOverall ==
  IF ProgressIn(progress_q) = {} THEN overall_progress
  ELSE LET i == CHOOSE j \in ProgressIn(progress_q) : \A k \in ProgressIn(progress_q) : k <= j
       IN [num |-> progress_q[i].num, den |-> progress_q[i].den]
NewProgress == Posts /\ Last(progress_q').type = "progress"

\* C15 (as claimed): as long as no task's percent went down from one callback
\* to the next, every progress event the worker posts carries an overall
\* value at least that of the progress event posted before it.
C15_OverallNonDecreasing ==
  [][NewProgress /\ hist'.mono =>
       LET e == Last(progress_q')
       IN e.num * LastOverall.den >= LastOverall.num * e.den]_vars

\* C16 (as claimed): every progress event of a task before the last carries
\* an overall value below 100, and a value of 100 or more is carried only by
\* an event of the last task that completes the item (percent 100, or the
\* skip of the item).
C16_HundredOnlyAtEnd ==
  \A i \in ProgressIn(progress_q) :
    LET e == progress_q[i] IN
    /\ e.task < total => e.num < 100 * e.den
    /\ e.num >= 100 * e.den => e.task = total /\ e.pct \in {100, -1}

\* C17: the progress event posted after the skip of the private item idx of
\* total carries the overall value 100 * idx / total, and every skip is
\* followed by that event.
C17_SkipAdvancesOverall ==
  /\ [](\A i \in ProgressIn(progress_q) :
          LET e == progress_q[i] IN
          e.pct = -1 => /\ e.task \in hist.private
                        /\ StatusOf("Skipping", e.task) # {}
                        /\ e.num * total = 100 * e.task * e.den)
  /\ [][pc = "skip_progress" /\ pc' # pc =>
         NewProgress /\ Last(progress_q').pct = -1 /\ Last(progress_q').task = idx]_vars

C17_Witness ==
  /\ total = 2 /\ idx = 1 /\ pc = "loop"
  /\ \E i \in ProgressIn(progress_q) :
       progress_q[i].pct = -1 /\ progress_q[i].num = 100 /\ progress_q[i].den = 2

(* ------------------- post_progress checked alone ----------------------- *)
\* The state of a worker at position pcv with the given arguments and
\* locals: no other thread runs, the queue is empty.
Fixture(pcv, us, pl, i, expand, installed) ==
  /\ downloading = TRUE
  /\ cancel_event = FALSE
  /\ target_dir = TRUE
  /\ ffmpeg_ok = TRUE
  /\ expand_playlist_var = expand
  /\ container_var = DEFAULT_CONTAINER
  /\ overall_progress = [num |-> 0, den |-> 1]
  /\ item_progress = 0
  /\ error_dialog = ""
  /\ ui_pc = "idle"
  /\ ytdlp = installed
  /\ progress_q = <<>>
  /\ pc = pcv
  /\ urls = us
  /\ planned = pl
  /\ idx = i
  /\ title = ""
  /\ private_detected = FALSE
  /\ fallback_counter = 1
  /\ dl_ctx = NoCtx
  /\ hooks = 0
  /\ run = 1
  /\ statuses = <<>>
  /\ inv = <<>>
  /\ hist = NoHist

\* item percents handed to post_progress: 0, 10, ..., 100
ItemPercents == {10 * k : k \in 0..10}

\* a worker inside download_single for task i of a batch of n
ProgressInit ==
  \E n \in 1..MaxTotal, i \in 1..MaxTotal :
    /\ i <= n
    /\ Fixture("download", [k \in 1..n |-> "https://y/watch?v=a"],
               [k \in 1..n |-> Task("https://y/watch?v=a")], i, FALSE, TRUE)

\* ui.py:413-423: post_progress({"type": "progress", "value": p}); the queue
\* keeps the event posted last
PostProgress ==
  /\ pc = "download"
  /\ \E p \in ItemPercents : progress_q' = <<ProgressEv("Downloading", idx, total, p)>>
  /\ UNCHANGED <<uiVars, ytdlp, container_var, workerVars, run, statuses, inv, hist>>

ProgressSpec == ProgressInit /\ [][PostProgress]_vars

\* C14: for 1 <= current_index <= total, of two item percents in [0,100] the
\* larger never gives the smaller overall value, and item percent 100 at
\* current_index = total gives overall exactly 100.
C14_OverallMonotoneInItem ==
  /\ [](\A i \in 1..Len(progress_q) :
          LET e == progress_q[i] IN
          e.task = total /\ e.pct = 100 => e.num = 100 * e.den)
  /\ [][progress_q # <<>> /\ progress_q' # <<>> =>
         LET a == progress_q[1]
             b == progress_q'[1]
         IN a.pct <= b.pct => a.num * b.den <= b.num * a.den]_vars

C14_Witness ==
  /\ total = 3 /\ idx = 3 /\ progress_q # <<>>
  /\ progress_q[1].pct = 100 /\ progress_q[1].num = 300 /\ progress_q[1].den = 3

(* ------------------- plan_downloads checked alone ---------------------- *)
RECURSIVE SeqsUpTo(_, _)
SeqsUpTo(S, n) ==
  IF n = 0 THEN {<<>>}
  ELSE LET shorter == SeqsUpTo(S, n - 1)
       IN shorter \cup {Append(q, x) : q \in {t \in shorter : Len(t) = n - 1}, x \in S}

\* URLs given to the planner
PlanUrls == {"https://y/watch?v=a", "https://y/playlist?list=b"}

\* The entries of a playlist: entry j has its own URL or none, and the
\* title EntryTitle(j).
PlanEntryUrl(j) == CASE j = 1 -> "https://y/e1" [] j = 2 -> "https://y/e2" [] OTHER -> "https://y/e3"
PlanEntries ==
  UNION {{[j \in 1..n |-> Entry(IF j \in S THEN PlanEntryUrl(j) ELSE "", EntryTitle(j))] :
            S \in SUBSET (1..n)} : n \in 0..MaxPlanEntries}

\* The extractor's answers the planner model draws from.
PlanProbes ==
  {ProbeRaise, ProbeVideo} \cup {ProbePlaylist(t, es) : t \in {"", "A/B"}, es \in PlanEntries}

PlanInit ==
  \E us \in SeqsUpTo(PlanUrls, MaxPlanUrls), expand \in BOOLEAN, installed \in BOOLEAN :
    Fixture("plan", us, <<>>, 0, expand, installed)

\* planned = plan_downloads(urls, expand_playlist); inv keeps the answers of
\* the extractor's probes, which are made only when yt_dlp is installed and
\* expansion is on (planner.py:29-39)
PlannerPlan ==
  /\ pc = "plan"
  /\ \E probes \in [1..Len(urls) -> PlanProbes] :
       /\ planned' = plan_downloads(urls, expand_playlist_var, ytdlp, probes)
       /\ inv' = IF ytdlp /\ expand_playlist_var THEN probes ELSE <<>>
  /\ pc' = "total_label"
  /\ UNCHANGED <<uiVars, ytdlp, container_var, progress_q, urls, idx, title, private_detected,
                 fallback_counter, dl_ctx, hooks, run, statuses, hist>>

PlannerSpec == PlanInit /\ [][PlannerPlan]_vars

\* plan_downloads has returned
Planned == pc = "total_label"
\* the task carries no playlist metadata
NoMetadata(t) == t.pl_title = "" /\ t.pl_index = 0 /\ t.pl_count = 0 /\ t.entry_title = ""
\* the probe of urls[i] was made and answered a playlist with entries
Expanding(i) == inv # <<>> /\ inv[i].kind = "playlist" /\ inv[i].entries # <<>>
WithUrl(es) == SelectSeq(es, LAMBDA e : e.url # "")
\* the number of tasks urls[i] is to contribute, and of those before it
Contribution(i) == IF Expanding(i) THEN Len(WithUrl(inv[i].entries)) ELSE 1
RECURSIVE Offset(_)
Offset(i) == IF i = 1 THEN 0 ELSE Offset(i - 1) + Contribution(i - 1)

\* C18: with expansion off, plan_downloads returns one task per URL, the i-th
\* with the i-th URL and no playlist metadata.
C18_NoExpansionOneTaskPerUrl ==
  Planned /\ ~expand_playlist_var =>
    /\ Len(planned) = Len(urls)
    /\ \A i \in 1..Len(urls) : planned[i].url = urls[i] /\ NoMetadata(planned[i])

C18_Witness ==
  /\ Planned /\ ~expand_playlist_var /\ ytdlp
  /\ urls = <<"https://y/playlist?list=b", "https://y/watch?v=a">>
  /\ Len(planned) = 2 /\ planned[1].url = "https://y/playlist?list=b"

\* C19: with expansion on, a URL that probes as a playlist with entries gives
\* one task per entry that has a URL, in the entries' order, with pl_index
\* 1..pl_count, one pl_title and pl_count the number of its tasks; every task
\* has pl_index and pl_count both or neither, with 1 <= pl_index <= pl_count.
C19_PlaylistTasksIndexed ==
  Planned =>
    /\ Len(planned) = Offset(Len(urls) + 1)
    /\ \A i \in 1..Len(urls) :
         Expanding(i) =>
           LET es == WithUrl(inv[i].entries) IN
           \A k \in 1..Len(es) :
             LET t == planned[Offset(i) + k] IN
             /\ t.url = es[k].url /\ t.entry_title = es[k].title
             /\ t.pl_index = k /\ t.pl_count = Len(es)
             /\ t.pl_title = planned[Offset(i) + 1].pl_title
    /\ \A k \in 1..Len(planned) :
         /\ planned[k].pl_index = 0 <=> planned[k].pl_count = 0
         /\ planned[k].pl_index # 0 => 1 <= planned[k].pl_index /\ planned[k].pl_index <= planned[k].pl_count

C19_Witness ==
  /\ Planned /\ Len(urls) = 2 /\ Expanding(1) /\ ~Expanding(2)
  /\ Len(inv[1].entries) = 2 /\ Len(WithUrl(inv[1].entries)) = 2
  /\ Len(planned) = 3 /\ planned[2].pl_index = 2 /\ planned[2].pl_count = 2
  /\ planned[2].pl_title = "A B"

\* C20: plan_downloads returns for every answer of the extractor; a URL whose
\* probe raised contributes exactly one task, with the raw URL and no
\* playlist metadata, at its place among the tasks of the other URLs.
C20_ProbeFailureOneRawTask ==
  /\ [](Planned =>
          /\ Len(planned) = Offset(Len(urls) + 1)
          /\ \A i \in 1..Len(urls) :
               inv # <<>> /\ inv[i].kind = "raise" =>
                 /\ Contribution(i) = 1
                 /\ planned[Offset(i) + 1].url = urls[i]
                 /\ NoMetadata(planned[Offset(i) + 1]))
  /\ [][pc = "plan" => Planned']_vars

C20_Witness ==
  /\ Planned /\ Len(urls) = 2 /\ inv # <<>>
  /\ inv[1].kind = "raise" /\ Expanding(2) /\ Len(planned) = 3
  /\ planned[1].url = urls[1] /\ planned[3].pl_index = 2

\* ---------------------------------------------------------------------------
\* The speed and ETA estimator of the progress hook, checked alone
\* (downloader_service.py:76-97).  Timestamps are whole seconds, byte counts
\* are multiples of ChunkBytes, a speed is the exact fraction num/den in
\* bytes per second.  In this specification inv holds ctx.rate_samples and
\* progress_q the event posted last.
\* ---------------------------------------------------------------------------

SPEED_SMOOTH_WINDOW_SEC == 5

MaxClock == 7
MaxSamples == 3
MaxChunks == 3
ChunkBytes == 500

\* the eta of an event that has none (eta = None)
NoEta == -1

rate_samples == inv

Sample(t, b) == [t |-> t, b |-> b]

Rate(n, d) == [num |-> n, den |-> d]

\* lines 77-78 with the pruning left out
Prune_KeepAll(samples, now) == samples

\* lines 77-78: while rate_samples and (now - rate_samples[0][0]) > W: popleft()
RECURSIVE Prune(_, _)
Prune(samples, now) ==
  IF samples # <<>> /\ now - samples[1].t > SPEED_SMOOTH_WINDOW_SEC
  THEN Prune(Tail(samples), now)
  ELSE samples

\* lines 80-87: dt = max(0.001, last_t - first_t), db = max(0, last_b - first_b)
avg_speed_bps(samples) ==
  IF Len(samples) >= 2
  THEN LET dt == Last(samples).t - samples[1].t
           db == Max(0, Last(samples).b - samples[1].b)
       IN IF dt = 0 THEN Rate(db * 1000, 1) ELSE Rate(db, dt)
  ELSE Rate(0, 1)

\* line 90: speed_bps = avg_speed_bps or float(raw_speed or 0)
speed_bps(samples, raw_speed) ==
  IF avg_speed_bps(samples).num # 0 THEN avg_speed_bps(samples) ELSE Rate(raw_speed, 1)

\* lines 92-97 with 0 in place of None
eta_seconds_ZeroForNone(tot, downloaded, speed) ==
  IF tot # 0 /\ speed.num > 0
  THEN (Max(0, tot - downloaded) * speed.den) \div speed.num
  ELSE 0

\* lines 92-97: eta = None; if total and speed_bps > 0:
\*   eta = int(max(0, total - downloaded) / speed_bps)
eta_seconds(tot, downloaded, speed) ==
  IF tot # 0 /\ speed.num > 0
  THEN (Max(0, tot - downloaded) * speed.den) \div speed.num
  ELSE NoEta

\* lines 98-108: the fields of the progress event the estimator fills in;
\* dropped counts the samples this callback pruned
RateEv(samples, dropped, downloaded, tot, raw_speed) ==
  [type |-> "progress", downloaded |-> downloaded, total |-> tot, raw |-> raw_speed,
   speed |-> speed_bps(samples, raw_speed),
   eta |-> eta_seconds(tot, downloaded, speed_bps(samples, raw_speed)),
   dropped |-> dropped]

ByteCounts == {k * ChunkBytes : k \in 0..MaxChunks}

\* a worker inside ydl.download of the only task, no callback received yet
RateInit ==
  Fixture("download", <<"https://y/watch?v=a">>, <<Task("https://y/watch?v=a")>>, 1, FALSE, TRUE)

\* lines 68-108: one 'downloading' callback at time now (not before the
\* previous one) with a cumulative byte count, a total that is known or not
\* and the tool's own speed that is given or not
RateHook ==
  /\ pc = "download"
  /\ Len(rate_samples) < MaxSamples
  /\ \E now \in 0..MaxClock, downloaded \in ByteCounts,
        tot \in {0} \cup (ByteCounts \ {0}), raw_speed \in {0, ChunkBytes} :
       /\ rate_samples # <<>> =>
            /\ now >= Last(rate_samples).t
            /\ downloaded >= Last(rate_samples).b
       /\ LET appended == Append(rate_samples, Sample(now, downloaded))
              kept == Prune(appended, now)
          IN /\ inv' = kept
             /\ progress_q' = <<RateEv(kept, Len(appended) - Len(kept),
                                       downloaded, tot, raw_speed)>>
  /\ UNCHANGED <<uiVars, ytdlp, container_var, workerVars, run, statuses, hist>>

RateSpec == RateInit /\ [][RateHook]_vars

\* C21: after each callback every kept sample lies within the last
\* SPEED_SMOOTH_WINDOW_SEC seconds of that callback, and the windowed
\* throughput of the kept samples is never negative.
C21_WindowKept ==
  rate_samples # <<>> =>
    /\ \A i \in 1..Len(rate_samples) :
         /\ Last(rate_samples).t - rate_samples[i].t <= SPEED_SMOOTH_WINDOW_SEC
         /\ Last(rate_samples).t - rate_samples[i].t >= 0
    /\ avg_speed_bps(rate_samples).num >= 0
    /\ avg_speed_bps(rate_samples).den > 0

C21_Witness ==
  /\ Len(rate_samples) >= 2
  /\ progress_q[1].dropped >= 1
  /\ Last(rate_samples).t - rate_samples[1].t = SPEED_SMOOTH_WINDOW_SEC
  /\ avg_speed_bps(rate_samples).num > 0

\* C22: with two or more samples kept the event's speed is the windowed
\* throughput (lastBytes - firstBytes) / max(0.001, lastT - firstT), a
\* throughput of 0 included; with fewer it is the tool's own speed, or 0.
C22_SpeedIsWindowedThroughput ==
  progress_q # <<>> =>
    LET e == progress_q[1]
        dt == Last(rate_samples).t - rate_samples[1].t
        db == Last(rate_samples).b - rate_samples[1].b
    IN IF Len(rate_samples) >= 2
       THEN e.speed.num * (IF dt = 0 THEN 1 ELSE dt) =
              (IF dt = 0 THEN db * 1000 ELSE db) * e.speed.den
       ELSE e.speed = Rate(e.raw, 1)

\* C23: the event's eta is floor((total - downloaded) / speed), not below 0,
\* when the total is known and the speed is positive (2 for 1000 bytes left
\* at 500 B/s), and is absent, not 0, when the total is unknown or the speed
\* is 0.
C23_EtaFloorOrAbsent ==
  progress_q # <<>> =>
    LET e == progress_q[1]
        left == Max(0, e.total - e.downloaded)
    IN IF e.total # 0 /\ e.speed.num > 0
       THEN /\ e.eta >= 0
            /\ e.eta * e.speed.num <= left * e.speed.den
            /\ (e.eta + 1) * e.speed.num > left * e.speed.den
            /\ (left = 1000 /\ e.speed.num = 500 * e.speed.den => e.eta = 2)
       ELSE e.eta = NoEta /\ e.eta # 0

C23_Witness ==
  /\ progress_q # <<>>
  /\ progress_q[1].total - progress_q[1].downloaded = 1000
  /\ progress_q[1].speed = Rate(500, 1)
  /\ Len(rate_samples) = 2
  /\ progress_q[1].eta = 2

\* ---------------------------------------------------------------------------
\* File naming checked alone (utils.py:11-34).  sanitize_filename works on a
\* name given as its sequence of characters.  ensure_unique_path works on a
\* file name given as a sequence of parts, each part either the dot "." or a
\* non-empty text without a dot, which is all pathlib's with_suffix looks at.
\* In this specification inv holds the record of the one call made.
\* ---------------------------------------------------------------------------

MaxNameLen == 3

\* utils.py:11
INVALID_FS_CHARS == {"\\", "/", ":", "*", "?", "\"", "<", ">", "|"}

\* what re's \s and str.strip take for whitespace, among the characters used
Whitespace == {" ", "\t", "\n", "\r", "\f"}

NameChars == {"a"} \cup Whitespace \cup INVALID_FS_CHARS

\* re.sub(r"[\r\n\t]", " ", name)
NoCtl(s) == [i \in 1..Len(s) |-> IF s[i] \in {"\r", "\n", "\t"} THEN " " ELSE s[i]]

\* "".join((c if c not in INVALID_FS_CHARS else " ") for c in name)
NoInvalid(s) == [i \in 1..Len(s) |-> IF s[i] \in INVALID_FS_CHARS THEN " " ELSE s[i]]

\* re.sub(r"\s+", " ", name)
RECURSIVE CollapseWhitespace(_)
CollapseWhitespace(s) ==
  IF s = <<>> THEN <<>>
  ELSE IF s[1] \in Whitespace
       THEN IF Len(s) >= 2 /\ s[2] \in Whitespace
            THEN CollapseWhitespace(Tail(s))
            ELSE <<" ">> \o CollapseWhitespace(Tail(s))
       ELSE <<s[1]>> \o CollapseWhitespace(Tail(s))

\* str.strip()
RECURSIVE Strip(_)
Strip(s) ==
  IF s = <<>> THEN <<>>
  ELSE IF s[1] \in Whitespace THEN Strip(Tail(s))
  ELSE IF Last(s) \in Whitespace THEN Strip(SubSeq(s, 1, Len(s) - 1))
  ELSE s

\* sanitize_filename without the strip()
sanitize_filename_NoStrip(name) ==
  IF name = <<>> THEN <<>>
  ELSE CollapseWhitespace(NoInvalid(NoCtl(name)))

\* utils.py:14-21
sanitize_filename(name) ==
  IF name = <<>> THEN <<>>
  ELSE Strip(CollapseWhitespace(NoInvalid(NoCtl(name))))

RECURSIVE CharSeqs(_)
CharSeqs(n) ==
  IF n = 0 THEN {<<>>}
  ELSE CharSeqs(n - 1) \cup {Append(s, c) : s \in CharSeqs(n - 1), c \in NameChars}

\* pathlib's PurePath.suffix: the name from its last dot on, when that dot
\* is neither the first nor the last character; 0 when there is none
SuffixAt(name) ==
  LET dots == {k \in 1..Len(name) : name[k] = "."}
      k == IF dots = {} THEN 0 ELSE CHOOSE d \in dots : \A o \in dots : o <= d
  IN IF k > 1 /\ k < Len(name) THEN k ELSE 0

\* pathlib's PurePath.with_suffix("." + ext): the old suffix is replaced
with_suffix(name, ext) ==
  IF SuffixAt(name) = 0 THEN name \o <<".", ext>>
  ELSE SubSeq(name, 1, SuffixAt(name) - 1) \o <<".", ext>>

\* the texts " (1)", " (2)", ... that line 31 appends to the base name
Numbered == <<" (1)", " (2)", " (3)", " (4)">>

\* utils.py:26, 31: the candidate tried first (i = 0) and the i-th after it
Candidate(base, ext, i) ==
  IF i = 0 THEN with_suffix(base, ext)
  ELSE with_suffix(Append(base, Numbered[i]), ext)

\* the answer of a call that never returns
NoPath == <<>>

\* utils.py:24-34; exists is the set of file names present in the folder.
\* The loop has no upper limit: when every candidate exists it runs on.
ensure_unique_path(base, ext, exists) ==
  LET free == {i \in {0} \cup DOMAIN Numbered : Candidate(base, ext, i) \notin exists}
  IN IF free = {} THEN NoPath
     ELSE Candidate(base, ext, CHOOSE i \in free : \A o \in free : i <= o)

\* base names: sanitized, not empty, not made of dots only
RECURSIVE PartSeqs(_)
PartSeqs(n) ==
  IF n = 0 THEN {<<>>}
  ELSE PartSeqs(n - 1) \cup {Append(s, c) : s \in PartSeqs(n - 1), c \in {"a", "."}}

BaseNames == {s \in PartSeqs(MaxNameLen) : \E k \in 1..Len(s) : s[k] # "."}

\* the file names a folder may hold that matter to a call: the name the
\* call tries first, and the base name followed by " (i)" and the extension
Present(base, ext) ==
  {with_suffix(base, ext), base \o <<".", ext>>}
    \cup {base \o <<Numbered[i], ".", ext>> : i \in 1..2}

NamingInit ==
  Fixture("ds_probe", <<"https://y/watch?v=a">>, <<Task("https://y/watch?v=a")>>, 1, FALSE, TRUE)

\* downloader_service.py:133: sanitize_filename(title)
SanitizeTitle ==
  /\ pc = "ds_probe"
  /\ inv = <<>>
  /\ \E name \in CharSeqs(MaxNameLen) :
       inv' = <<[call |-> "sanitize_filename", name |-> name,
                 result |-> sanitize_filename(name)]>>
  /\ UNCHANGED <<uiVars, ytdlp, container_var, progress_q, workerVars, run, statuses, hist>>

\* downloader_service.py:146-151: ensure_unique_path(base, merge_fmt)
UniquePath ==
  /\ pc = "ds_probe"
  /\ inv = <<>>
  /\ \E base \in BaseNames, ext \in {"mp4"} :
       \E exists \in SUBSET Present(base, ext) :
         inv' = <<[call |-> "ensure_unique_path", base |-> base, ext |-> ext,
                   exists |-> exists,
                   result |-> ensure_unique_path(base, ext, exists)]>>
  /\ UNCHANGED <<uiVars, ytdlp, container_var, progress_q, workerVars, run, statuses, hist>>

NamingSpec == NamingInit /\ [][SanitizeTitle \/ UniquePath]_vars

CallOf(f) == inv # <<>> /\ inv[1].call = f

\* C24: ensure_unique_path returns a path that does not exist: the whole base
\* name followed by "." and the extension when that is free, else the whole
\* base name followed by " (i)", "." and the extension for the least i >= 1
\* whose path is free; so for every base name, one with a dot included.
C24_UniquePathKeepsBaseName ==
  CallOf("ensure_unique_path") =>
    LET c == inv[1]
        Full(i) == IF i = 0 THEN c.base \o <<".", c.ext>>
                   ELSE c.base \o <<Numbered[i], ".", c.ext>>
        free == {i \in {0} \cup DOMAIN Numbered : Full(i) \notin c.exists}
    IN /\ c.result # NoPath
       /\ c.result \notin c.exists
       /\ free # {}
       /\ c.result = Full(CHOOSE i \in free : \A o \in free : i <= o)

\* C25: the result of sanitize_filename holds none of \ / : * ? " < > |, no
\* carriage return, newline or tab, no two whitespace characters in a row
\* and no whitespace at either end.
C25_SanitizedClean ==
  CallOf("sanitize_filename") =>
    LET r == inv[1].result IN
    /\ \A i \in 1..Len(r) : r[i] \notin INVALID_FS_CHARS \cup {"\r", "\n", "\t"}
    /\ \A i \in 1..(Len(r) - 1) : ~(r[i] \in Whitespace /\ r[i + 1] \in Whitespace)
    /\ r # <<>> => r[1] \notin Whitespace /\ Last(r) \notin Whitespace

C25_Witness ==
  /\ CallOf("sanitize_filename")
  /\ inv[1].name = <<"\t", "a", "/">>
  /\ inv[1].result = <<"a">>

\* ---------------------------------------------------------------------------
\* The progress queue checked alone (ui.py:58, 413-423, progress_ui.py:16-136):
\* a worker inside download_single posts progress events while the consumer
\* polls.  In this specification statuses holds every event posted so far.
\* ---------------------------------------------------------------------------

MaxPosts == 3

posted == statuses

QueueInit ==
  Fixture("download", <<"https://y/watch?v=a">>, <<Task("https://y/watch?v=a")>>, 1, FALSE, TRUE)

\* ui.py:413-423: post_progress puts the event on the queue, which has no
\* size limit (queue.Queue())
QueuePost ==
  /\ pc = "download"
  /\ Len(posted) < MaxPosts
  /\ \E p \in ItemPercents :
       /\ progress_q' = Append(progress_q, ProgressEv("Downloading", idx, total, p))
       /\ statuses' = Append(statuses, ProgressEv("Downloading", idx, total, p))
  /\ UNCHANGED <<uiVars, ytdlp, container_var, workerVars, run, inv, hist>>

QueueSpec == QueueInit /\ [][QueuePost \/ ConsumerGet \/ ConsumerEmpty]_vars

\* the number of events the consumer has taken off the queue
Consumed == Len(posted) - Len(progress_q)

\* C26: the queue is first-in first-out between the worker and the consumer:
\* the events still queued are the events posted last, in posting order, and
\* the bars show the event posted just before them, so the consumer has
\* processed the posted events in order, none skipped and none twice.
C26_QueueIsFifo ==
  /\ Consumed >= 0
  /\ progress_q = SubSeq(posted, Consumed + 1, Len(posted))
  /\ Consumed = 0 => item_progress = 0 /\ overall_progress = [num |-> 0, den |-> 1]
  /\ Consumed >= 1 =>
       /\ item_progress = posted[Consumed].pct
       /\ overall_progress = [num |-> posted[Consumed].num, den |-> posted[Consumed].den]

C26_Witness ==
  /\ Len(posted) = MaxPosts
  /\ Consumed = 2
  /\ posted[1].pct > posted[2].pct
  /\ posted[2].pct < posted[3].pct
  /\ posted[1].pct # posted[3].pct

\* C27: once a worker is started the start controls come back only when the
\* consumer processes that run's done event: downloading is true while the
\* worker has not posted done and while done waits in the queue, and after
\* a first start it is false only with the worker finished and its done
\* taken off the queue.
C27_ControlsFollowDone ==
  LET DoneQueued == \E i \in 1..Len(progress_q) : progress_q[i].type = "done" IN
  /\ pc \notin {"none", "finished"} => downloading
  /\ DoneQueued => downloading
  /\ run > 0 /\ ~downloading => pc = "finished" /\ ~DoneQueued /\ DoneAt # {}

C27_Witness ==
  /\ run = 1
  /\ pc = "finished"
  /\ ~downloading
  /\ EndsWith("All done")

\* C28: every batch start clears the cancellation flag, the flag is raised
\* only by a cancel request made while a batch is running, and a batch posts
\* "Cancelled" only with the flag raised; so a request made during an
\* earlier batch never cancels a later one.
C28_CancelFlagClearedAtStart ==
  /\ [](StatusAt("Cancelled") # {} => cancel_event)
  /\ [][run' # run => ~cancel_event']_vars
  /\ [][~cancel_event /\ cancel_event' => downloading /\ run' = run]_vars

C28_Witness ==
  /\ run = 2
  /\ cancel_event
  /\ EndsWith("Cancelled")

\* ---------------------------------------------------------------------------
\* A running batch while the user changes the container format
\* (ui.py:179, 394-410).  Spec leaves the menu alone; here one batch is under
\* way from its first step and the menu may be used at any time.
\* ---------------------------------------------------------------------------

OptionsInit ==
  \E words \in UrlBoxes, expand \in BOOLEAN :
    /\ collect_urls(words) # <<>>
    /\ Fixture("plan", collect_urls(words), <<>>, 0, expand, TRUE)

OptionsNext ==
  \/ \E c \in Containers : SetContainer(c)
  \/ CancelDownload
  \/ Worker
  \/ ConsumerGet
  \/ ConsumerEmpty

OptionsSpec == OptionsInit /\ [][OptionsNext]_vars

\* C29: a change of the container format made while a batch runs does not
\* reach the worker: the DownloadContext of every task of the run carries
\* the format that was selected when the run was started.
C29_ContextFixedAtStart ==
  dl_ctx # NoCtx => dl_ctx.merge_format = hist.container

\* C30: the fallback counter lasts for the whole batch and only grows: no
\* step within a run lowers it, so the k-th task without a title takes the
\* value k and no two synthetic names of a batch are equal.
C30_FallbackCounterPersists ==
  [][run' = run => fallback_counter' >= fallback_counter]_vars

\* C31 (as claimed): title resolution never ends download_single: whatever
\* the probe answers, the next step of the worker is the primary invocation,
\* the fallback counter grows by at most one, and it does not grow when the
\* task carries an entry title.
C31_TitleResolutionNeverFails ==
  [][pc = "ds_probe" /\ pc' # "ds_probe" =>
       /\ pc' = "download"
       /\ inv' = <<Invocation("selected", "running")>>
       /\ fallback_counter' \in {fallback_counter, fallback_counter + 1}
       /\ planned[idx].entry_title # "" => fallback_counter' = fallback_counter]_vars

\* C32 (as claimed): a callback that arrives with the cancellation flag set
\* posts no progress event, whether it reports "downloading" or "finished".
C32_CancelCheckedOnEveryCallback ==
  [][cancel_event /\ pc = "download" => ~NewProgress]_vars

\* C33 (as claimed): "Saved to:" is posted for a task at most once, exactly
\* when an invocation made for it returned, by the step that follows the
\* saved_to label, and never for a task that was skipped, cancelled or failed.
C33_SavedExactlyOnSuccess ==
  /\ [](\A i \in 1..total :
          /\ Cardinality(StatusOf("Saved to:", i)) <= 1
          /\ StatusOf("Saved to:", i) # {} =>
               i \notin hist.private /\ hist.hook_cancel # i /\ hist.failed # i
          /\ i = idx /\ StatusOf("Saved to:", i) # {} =>
               inv # <<>> /\ Last(inv).result = "returned"
          /\ i = idx /\ pc = "loop" /\ hist.called /\ inv # <<>> /\ Last(inv).result = "returned" =>
               StatusOf("Saved to:", i) # {})
  /\ [][Posts /\ Last(progress_q').type = "status" /\ Last(progress_q').text = "Saved to:" =>
          pc = "saved_status" /\ Last(progress_q').task = idx]_vars

\* C34: one worker takes the tasks one after the other in planner order:
\* within a run idx stays or grows by one, the step that moves to task idx
\* posts its "Total items idx / total" label, every other event of a task is
\* posted while idx is that task (so after its label), and download_single
\* is called for a task that it was not called for before.
C34_SequentialInOrder ==
  /\ [][run' = run => idx' \in {idx, idx + 1}]_vars
  /\ [][run' = run /\ idx' # idx =>
          Posts /\ Last(progress_q') = LabelEv("overall", "Total items", "", idx', total)]_vars
  /\ [][run' = run /\ idx' = idx /\ Posts /\ Last(progress_q').task # 0 =>
          Last(progress_q').task = idx]_vars
  /\ [][pc = "call" /\ pc' # "call" => ~hist.called /\ hist'.called]_vars

C34_Witness ==
  /\ idx = 2
  /\ pc = "download"
  /\ hist.called
  /\ progress_q # <<>>
  /\ progress_q[1].type = "progress"
  /\ progress_q[1].task = 2

\* C35 (as claimed): a non-empty URL list never plans to nothing: with or
\* without expansion plan_downloads returns at least one task.
C35_PlanNeverEmpty ==
  Planned /\ urls # <<>> => Len(planned) >= 1

\* ---------------------------------------------------------------------------
\* The consumer with failures: the handling of any item may raise, and the
\* poll is rescheduled all the same (progress_ui.py:133-136), so one of the
\* two ways of taking an item keeps happening while the queue is not empty.
\* ---------------------------------------------------------------------------

PollNext == Next \/ ConsumerRaises

PollSpec ==
  Init /\ [][PollNext]_vars /\ WF_vars(Worker) /\ WF_vars(ConsumerGet \/ ConsumerRaises)

\* a start request with valid preconditions: URLs in the box, a folder, the
\* toolchain found, no batch running
ValidStart ==
  /\ ~downloading /\ target_dir /\ ffmpeg_ok
  /\ \E words \in UrlBoxes, yes \in BOOLEAN :
       collect_urls(words) # <<>> /\ StartDownload(words, yes)

\* C36: the consumer keeps polling whether or not the handling of an item
\* raised: once the worker has posted done, done is processed and
\* downloading becomes false, and a valid start request made after a run is
\* accepted.
C36_PollingGoesOn ==
  /\ (pc = "finished" ~> ~downloading)
  /\ [][run > 0 /\ ValidStart => downloading' /\ run' = run + 1 /\ pc' = "plan"]_vars

C36_Witness ==
  /\ run = 2
  /\ pc = "finished"
  /\ ~downloading
  /\ ui_pc = "idle"
  /\ overall_progress = [num |-> 0, den |-> 1]
  /\ EndsWith("All done")
  /\ StatusAt("Saved to:") # {}

\* C37 (as claimed): with the container format mp3 every invocation made for
\* the task, the retry included, asks for the extraction of audio to mp3.
C37_Mp3AlwaysExtracted ==
  merge_fmt(dl_ctx) = "mp3" /\ dl_ctx # NoCtx =>
    \A k \in 1..Len(inv) : "FFmpegExtractAudio" \in Postprocessors(inv[k].format, dl_ctx)

\* C38: a request made in the wrong state changes nothing: while a batch is
\* running no step starts a worker or lowers the cancellation flag, and a
\* start request leaves every variable as it is (no event, no worker); while
\* no batch is running no step raises the flag, and a cancel request leaves
\* every variable as it is.
C38_WrongStateRequestsIgnored ==
  /\ [][downloading => run' = run /\ (cancel_event => cancel_event')]_vars
  /\ [][downloading /\ (\E words \in UrlBoxes, yes \in BOOLEAN : StartDownload(words, yes)) =>
          UNCHANGED vars]_vars
  /\ [][~downloading /\ run' = run => cancel_event' = cancel_event]_vars
  /\ [][~downloading /\ CancelDownload => UNCHANGED vars]_vars

C38_Witness ==
  /\ downloading
  /\ cancel_event
  /\ ui_pc = "idle"
  /\ pc = "download"
  /\ progress_q = <<>>

\* the worker thread is scheduled, the consumer polls every PROGRESS_POLL_MS
FairSpec == Spec /\ WF_vars(Worker) /\ WF_vars(ConsumerGet)

====
